---- MODULE Spec2Model ----
(***************************************************************************)
(* Model of ssh_server_manager.py: the pending-change table               *)
(* (_pending_actions), propose_nginx_config_update, apply_pending_change   *)
(* and the helpers _run_remote_command and _write_remote_file_content.     *)
(*                                                                         *)
(* Texts are sequences of tokens; the substring tests of the code          *)
(* ("Error" in result, "sudo" not in error, ...) are token membership.     *)
(* Every phrase the code tests for is a token of its own.                  *)
(* Several callers run apply_pending_change concurrently; a step of the    *)
(* model is one table operation or one remote interaction.                 *)
(***************************************************************************)
EXTENDS Integers, Sequences, FiniteSets, TLC

\* ---- bounds -------------------------------------------------------------
MaxProposals == 2
ContentLen == 2

Callers == {"c1", "c2"}
ConfigPaths == {"app.conf"}
NoSuchId == 0
NoTemp == 0

VARIABLES
  pending,        \* _pending_actions: id -> [type, file_path, content]
  nextId,         \* ids handed out so far by uuid.uuid4() in propose are 1..nextId-1
  nextUuid,       \* temp-name suffixes handed out so far by uuid.uuid4().hex
  remote,         \* remote target files: path -> content
  tmpFiles,       \* remote /tmp files: suffix -> content written so far
  pc,             \* position of each caller in apply_pending_change
  action_id,      \* argument of the running apply_pending_change
  action_details, \* the popped entry (line 144)
  temp_remote_path, \* suffix of the temp path of the running write (line 80)
  move_result,    \* result of the move command (line 85)
  result,         \* return value of _write_remote_file_content (line 150)
  validation_output, \* line 153
  outcome,        \* return value of apply_pending_change
  openClients,    \* history: SSH clients the running call connected and has not closed
  cmds,           \* history: remote commands issued by the running call
  moved,          \* history: the move of this call took effect on the remote
  reloaded,       \* history: the reload of this call took effect on the remote
  cleaned,        \* history: the rm of this call removed its temp file
  consumed,       \* history: ids removed from the table by a pop
  commitRuns,     \* history: id -> number of calls that entered the commit stage
  run             \* one _run_remote_command call on its own: input and return value

tableVars == <<pending, nextId, consumed, commitRuns>>
remoteVars == <<remote, tmpFiles, nextUuid>>
localVars == <<pc, action_id, action_details, temp_remote_path, move_result,
               result, validation_output, outcome, openClients, cmds, moved,
               reloaded, cleaned>>
vars == <<pending, nextId, nextUuid, remote, tmpFiles, openClients, pc,
          action_id, action_details, temp_remote_path, move_result, result,
          validation_output, outcome, cmds, moved, reloaded, cleaned, consumed,
          commitRuns, run>>

\* ---- texts ---------------------------------------------------------------
NoText == <<>>
Contains(text, phrase) == \E i \in DOMAIN text : text[i] = phrase

Ids == 1..MaxProposals
Kinds == {"nginx_config_update", "other_kind"}
\* File contents are opaque to the code. A content is ContentLen pieces; the
\* content of the proposal with id i is made of pieces i, so a file shows
\* which proposal wrote each of its pieces; the target starts with pieces 0.
FullContent(p) == [i \in 1..ContentLen |-> p]
Contents == {FullContent(p) : p \in Ids}
OldContent == FullContent(0)
NoDetails == [type |-> "none", file_path |-> "none", content |-> <<>>]

\* ---- the remote side: what one command execution can do -----------------
\* The code never reads an exit status: all it gets of a command is stdout
\* and stderr. mv across filesystems (from /tmp to the target's volume)
\* copies, and reports a failure to preserve ownership on stderr after it
\* has replaced the target.
\* kind "noconn": _get_ssh_client raised; "dropped": exec_command or a read
\* raised after the connection was made (the command may have run or not);
\* "ran": stdout and stderr were read.
ConnExc == {<<"timed out">>, <<"Error", "reading SSH protocol banner">>}
DropExc == {<<"Channel closed">>}

Ran(effect, out, err) ==
  [kind |-> "ran", effect |-> effect, out |-> out, err |-> err, exc |-> NoText]

TransportFailures ==
  {[kind |-> "noconn", effect |-> FALSE, out |-> NoText, err |-> NoText, exc |-> e] :
      e \in ConnExc}
  \cup
  {[kind |-> "dropped", effect |-> b, out |-> NoText, err |-> NoText, exc |-> e] :
      b \in BOOLEAN, e \in DropExc}

MvOutcomes ==
  { Ran(TRUE, NoText, NoText),
    Ran(TRUE, NoText, <<"sudo", "unable to resolve host">>),
    Ran(TRUE, NoText, <<"mv", "failed to preserve ownership">>),
    Ran(FALSE, NoText, <<"mv", "cannot move">>),
    Ran(FALSE, NoText, <<"sudo", "a password is required">>) }
  \cup TransportFailures

RmOutcomes ==
  { Ran(TRUE, NoText, NoText),
    Ran(FALSE, NoText, <<"rm", "cannot remove">>) }
  \cup TransportFailures

\* nginx -t reports on stderr
ValidateOutcomes ==
  { Ran(TRUE, NoText, <<"nginx", "syntax is ok", "nginx", "test is successful">>),
    Ran(TRUE, NoText, <<"nginx", "emerg", "test failed">>),
    Ran(FALSE, NoText, NoText),
    Ran(FALSE, NoText, <<"sudo", "a password is required">>) }
  \cup TransportFailures

ReloadOutcomes ==
  { Ran(TRUE, NoText, NoText),
    Ran(TRUE, NoText, <<"notice", "signal process started">>),
    Ran(FALSE, NoText, <<"nginx", "emerg", "invalid PID">>),
    Ran(FALSE, NoText, <<"sudo", "a password is required">>) }
  \cup TransportFailures

\* ---- _get_ssh_client / _run_remote_command -------------------------------
get_ssh_client_error(e) == <<"Failed to establish SSH connection">> \o e

\* lines 50-51: the command as run when a working directory is given
in_working_dir(command, working_dir) ==
  IF working_dir # NoText
    THEN <<"cd">> \o working_dir \o <<"&&">> \o command
    ELSE command

\* str.strip() of lines 53-54: leading and trailing whitespace removed
Whitespace == {" ", "\n"}
Strip(text) ==
  LET kept == {i \in DOMAIN text : text[i] \notin Whitespace}
      first == CHOOSE i \in kept : \A j \in kept : i <= j
      last == CHOOSE i \in kept : \A j \in kept : i >= j
  IN IF kept = {} THEN NoText ELSE SubSeq(text, first, last)

\* mutant: any stderr output is a failure, 'sudo' or not
run_remote_command_anyerr(command, o) ==
  LET output == Strip(o.out)
      error == Strip(o.err)
  IN IF o.kind = "noconn"
       THEN <<"Failed to run command">> \o command \o get_ssh_client_error(o.exc)
     ELSE IF o.kind = "dropped"
       THEN <<"Failed to run command">> \o command \o o.exc
     ELSE IF error # NoText
       THEN <<"Error", "executing command", "STDOUT">> \o output \o <<"STDERR">> \o error
     ELSE IF output # NoText THEN output ELSE error

\* lines 52-60, o being what the remote side did
run_remote_command(command, o) ==
  LET output == Strip(o.out)
      error == Strip(o.err)
  IN IF o.kind = "noconn"
       THEN <<"Failed to run command">> \o command \o get_ssh_client_error(o.exc)
     ELSE IF o.kind = "dropped"
       THEN <<"Failed to run command">> \o command \o o.exc
     ELSE IF error # NoText /\ ~Contains(error, "sudo")
       THEN <<"Error", "executing command", "STDOUT">> \o output \o <<"STDERR">> \o error
     ELSE IF output # NoText THEN output ELSE error

\* clients left open by one _run_remote_command: close() is line 55, after
\* the reads; an exception after connect skips it
run_leak(o) == IF o.kind = "dropped" THEN 1 ELSE 0

TempName(path, suffix) == "/tmp/" \o path \o ".tmp_" \o ToString(suffix)

move_command(c) ==
  <<"sudo", "mv", TempName(action_details[c].file_path, temp_remote_path[c]),
    action_details[c].file_path>>
rm_command(c) ==
  <<"rm", TempName(action_details[c].file_path, temp_remote_path[c])>>
validation_command == <<"sudo", "docker exec", "nginx", "nginx -t">>
reload_command == <<"sudo", "docker exec", "nginx", "nginx -s reload">>

\* ---- texts returned by the tools -----------------------------------------
write_ok(path) == <<"Successfully updated", path>>
write_error(path, e) == <<"Error", "writing file", path>> \o e
\* mutant: a failed move reported with the text of a failed write
move_error_as_write(r) == <<"Error", "writing file">> \o r
move_error(r) == <<"Error", "moving temporary file">> \o r

\* mutant: the message does not name the id
NotFoundText_noid(id) == <<"Error", "No pending change found with ID">>
NotFoundText(id) == <<"Error", "No pending change found with ID", ToString(id)>>
UnknownKindText(t) == <<"Unknown or unhandled action type", t>>
CommitFailedText(r) == <<"Failed to apply Nginx config update">> \o r
ValidateFailedText(v) == <<"Nginx config updated, but validation failed">> \o v
ActivateFailedText(r) == <<"Nginx config updated and validated, but reload failed">> \o r
AppliedText(path) == <<"Successfully applied update to", path, "validated, and Nginx reloaded">>
KeyErrorText(id) == <<"KeyError", ToString(id)>>

IsNotFound(t) == t # NoText /\ t[1] = "Error" /\ Len(t) > 1 /\ t[2] = "No pending change found with ID"
IsUnsupportedKind(t) == t # NoText /\ t[1] = "Unknown or unhandled action type"
IsCommitFailed(t) == t # NoText /\ t[1] = "Failed to apply Nginx config update"
IsValidateFailed(t) == t # NoText /\ t[1] = "Nginx config updated, but validation failed"
IsActivateFailed(t) == t # NoText /\ t[1] = "Nginx config updated and validated, but reload failed"
IsApplied(t) == t # NoText /\ t[1] = "Successfully applied update to"
IsKeyError(t) == t # NoText /\ t[1] = "KeyError"

\* ---- initial state -------------------------------------------------------
IdleLocals ==
  /\ pc = [c \in Callers |-> "idle"]
  /\ action_id = [c \in Callers |-> NoSuchId]
  /\ action_details = [c \in Callers |-> NoDetails]
  /\ temp_remote_path = [c \in Callers |-> NoTemp]
  /\ move_result = [c \in Callers |-> NoText]
  /\ result = [c \in Callers |-> NoText]
  /\ validation_output = [c \in Callers |-> NoText]
  /\ outcome = [c \in Callers |-> NoText]
  /\ openClients = [c \in Callers |-> 0]
  /\ cmds = [c \in Callers |-> <<>>]
  /\ moved = [c \in Callers |-> FALSE]
  /\ reloaded = [c \in Callers |-> FALSE]
  /\ cleaned = [c \in Callers |-> FALSE]

NoRun == [command |-> NoText, working_dir |-> NoText,
          o |-> Ran(FALSE, NoText, NoText), output |-> NoText, done |-> FALSE]

EmptyTable == [i \in {} |-> NoDetails]
NoFiles == [s \in {} |-> <<>>]

RemoteInit ==
  /\ remote = [p \in ConfigPaths |-> OldContent]
  /\ tmpFiles = NoFiles
  /\ nextUuid = 1

Init ==
  /\ pending = EmptyTable
  /\ nextId = 1
  /\ consumed = {}
  /\ commitRuns = [i \in Ids |-> 0]
  /\ RemoteInit
  /\ IdleLocals
  /\ run = NoRun

\* ---- table operations ----------------------------------------------------
Without(f, k) == [x \in (DOMAIN f) \ {k} |-> f[x]]

\* mutant: a new dict is assigned, with the one entry
With_reset(f, k, v) == [x \in {k} |-> v]

With(f, k, v) == [x \in (DOMAIN f) \cup {k} |-> IF x = k THEN v ELSE f[x]]

\* mutant: the membership test of line 142 left out
is_pending_always(tbl, k) == TRUE

\* `action_id not in _pending_actions` is false (line 142)
is_pending(tbl, k) == k \in DOMAIN tbl

\* mutant: the table is cleared, not popped
pop_table_clear(tbl, k) == [x \in {} |-> tbl[k]]

\* mutant: the entry is read with get, not removed with pop
pop_table_keep(tbl, k) == tbl

\* dict.pop(key): the table afterwards (line 144)
pop_table(tbl, k) == Without(tbl, k)

\* mutant: the dispatch on the type left out
is_supported_any(t) == TRUE

\* the type has a pipeline (line 149)
is_supported(t) == t = "nginx_config_update"

Finish(c, text) ==
  /\ pc' = [pc EXCEPT ![c] = "done"]
  /\ outcome' = [outcome EXCEPT ![c] = text]

\* ---- propose_nginx_config_update (lines 129-133) -------------------------
Propose(c) ==
  /\ pc[c] = "idle"
  /\ nextId <= MaxProposals
  /\ \E path \in ConfigPaths :
       pending' = With(pending, nextId,
                       [type |-> "nginx_config_update", file_path |-> path,
                        content |-> FullContent(nextId)])
  /\ nextId' = nextId + 1
  /\ UNCHANGED <<consumed, commitRuns>>
  /\ UNCHANGED remoteVars
  /\ UNCHANGED localVars

\* ---- apply_pending_change ------------------------------------------------
\* lines 142-143: the membership test
ApplyCheck(c) ==
  /\ pc[c] = "idle"
  /\ \E id \in (1..(nextId - 1)) \cup {NoSuchId} :
       /\ action_id' = [action_id EXCEPT ![c] = id]
       /\ IF ~is_pending(pending, id)
            THEN Finish(c, NotFoundText(id))
            ELSE /\ pc' = [pc EXCEPT ![c] = "pop"]
                 /\ UNCHANGED outcome
  /\ UNCHANGED tableVars
  /\ UNCHANGED remoteVars
  /\ UNCHANGED <<action_details, temp_remote_path, move_result, result,
                 validation_output, openClients, cmds, moved, reloaded, cleaned>>

\* lines 144-149 and 162-164: the pop and the dispatch on the type
ApplyPop(c) ==
  /\ pc[c] = "pop"
  /\ IF action_id[c] \in DOMAIN pending
       THEN /\ pending' = pop_table(pending, action_id[c])
            /\ consumed' = consumed \cup {action_id[c]}
            /\ action_details' = [action_details EXCEPT ![c] = pending[action_id[c]]]
            /\ IF is_supported(pending[action_id[c]].type)
                 THEN /\ pc' = [pc EXCEPT ![c] = "w_connect"]
                      /\ commitRuns' = [commitRuns EXCEPT ![action_id[c]] = @ + 1]
                      /\ UNCHANGED outcome
                 ELSE /\ Finish(c, UnknownKindText(pending[action_id[c]].type))
                      /\ UNCHANGED commitRuns
       ELSE \* dict.pop of a missing key raises KeyError, which nothing catches
            /\ Finish(c, KeyErrorText(action_id[c]))
            /\ UNCHANGED <<pending, consumed, commitRuns, action_details>>
  /\ UNCHANGED nextId
  /\ UNCHANGED remoteVars
  /\ UNCHANGED <<action_id, temp_remote_path, move_result, result,
                 validation_output, openClients, cmds, moved, reloaded, cleaned>>

\* lines 150-151 and 161: _write_remote_file_content has returned r; its
\* local `result` (the move result) is gone with its frame
AfterWrite(c, r) ==
  /\ result' = [result EXCEPT ![c] = r]
  /\ move_result' = [move_result EXCEPT ![c] = NoText]
  /\ IF Contains(r, "Successfully updated")
       THEN /\ pc' = [pc EXCEPT ![c] = "validate"]
            /\ UNCHANGED outcome
       ELSE Finish(c, CommitFailedText(r))

\* ---- _write_remote_file_content (lines 75-91) ----------------------------
SftpExc == {<<"Socket is closed">>}

\* lines 78-79: _get_ssh_client and open_sftp
WriteConnect(c) ==
  /\ pc[c] = "w_connect"
  /\ \/ /\ openClients' = [openClients EXCEPT ![c] = @ + 1]
        /\ pc' = [pc EXCEPT ![c] = "w_open"]
        /\ UNCHANGED <<result, outcome, move_result>>
     \/ \E e \in ConnExc :
          /\ AfterWrite(c, write_error(action_details[c].file_path,
                                       get_ssh_client_error(e)))
          /\ UNCHANGED openClients
     \/ \E e \in DropExc :
          /\ AfterWrite(c, write_error(action_details[c].file_path, e))
          /\ openClients' = [openClients EXCEPT ![c] = @ + 1]
  /\ UNCHANGED tableVars
  /\ UNCHANGED remoteVars
  /\ UNCHANGED <<action_id, action_details, temp_remote_path,
                 validation_output, cmds, moved, reloaded, cleaned>>

\* mutant: the temp name has no random part
temp_suffix_fixed(n) == 1

\* uuid.uuid4().hex of line 80, the n-th value drawn: a value not drawn before
temp_suffix(n) == n

\* lines 80-81: a fresh temp name, sftp.open(temp, "w") creates the file
\* (or empties the file of that name)
WriteOpen(c) ==
  /\ pc[c] = "w_open"
  /\ temp_remote_path' = [temp_remote_path EXCEPT ![c] = temp_suffix(nextUuid)]
  /\ nextUuid' = nextUuid + 1
  /\ \/ /\ tmpFiles' = With(tmpFiles, temp_suffix(nextUuid), <<>>)
        /\ pc' = [pc EXCEPT ![c] = "w_write"]
        /\ UNCHANGED <<result, outcome, move_result>>
     \/ \E e \in SftpExc :
          /\ AfterWrite(c, write_error(action_details[c].file_path, e))
          /\ UNCHANGED tmpFiles
  /\ UNCHANGED tableVars
  /\ UNCHANGED <<remote, openClients>>
  /\ UNCHANGED <<action_id, action_details,
                 validation_output, cmds, moved, reloaded, cleaned>>

\* mutant: the write stops after the first piece
write_complete_early(c, n) == n >= 1

\* f.write has sent the whole content once n pieces are written
write_complete(c, n) == n = Len(action_details[c].content)

\* lines 82-83: f.write(content) sends the content piece by piece; the file
\* is closed when the last piece is written or when a piece fails
WriteChunk(c) ==
  /\ pc[c] = "w_write"
  /\ LET t == temp_remote_path[c]
         n == Len(tmpFiles[t]) + 1
     IN \/ /\ tmpFiles' = [tmpFiles EXCEPT ![t] = Append(@, action_details[c].content[n])]
           /\ pc' = [pc EXCEPT ![c] =
                       IF write_complete(c, n) THEN "mv" ELSE "w_write"]
           /\ UNCHANGED <<result, outcome, move_result>>
        \/ \E e \in SftpExc :
             /\ AfterWrite(c, write_error(action_details[c].file_path, e))
             /\ UNCHANGED tmpFiles
  /\ UNCHANGED tableVars
  /\ UNCHANGED <<remote, nextUuid, openClients>>
  /\ UNCHANGED <<action_id, action_details, temp_remote_path,
                 validation_output, cmds, moved, reloaded, cleaned>>

\* what "mv temp path" does on the remote when it runs
move_effect(c, files, tmps) ==
  LET t == temp_remote_path[c]
      p == action_details[c].file_path
  IN IF t \in DOMAIN tmps
       THEN <<[files EXCEPT ![p] = tmps[t]], Without(tmps, t)>>
       ELSE <<files, tmps>>

\* the move is judged failed (line 86)
move_failed(r) == Contains(r, "Error")

\* lines 84-86 and 89
WriteMove(c) ==
  /\ pc[c] = "mv"
  /\ \E o \in MvOutcomes :
       LET r == run_remote_command(move_command(c), o)
           done == o.effect /\ temp_remote_path[c] \in DOMAIN tmpFiles
       IN /\ cmds' = [cmds EXCEPT ![c] = Append(@, "mv")]
          /\ openClients' = [openClients EXCEPT ![c] = @ + run_leak(o)]
          /\ moved' = [moved EXCEPT ![c] = done]
          /\ IF o.effect
               THEN /\ remote' = move_effect(c, remote, tmpFiles)[1]
                    /\ tmpFiles' = move_effect(c, remote, tmpFiles)[2]
               ELSE UNCHANGED <<remote, tmpFiles>>
          /\ IF move_failed(r)
               THEN /\ pc' = [pc EXCEPT ![c] = "rm"]
                    /\ move_result' = [move_result EXCEPT ![c] = r]
                    /\ UNCHANGED <<result, outcome>>
               ELSE AfterWrite(c, write_ok(action_details[c].file_path))
  /\ UNCHANGED tableVars
  /\ UNCHANGED nextUuid
  /\ UNCHANGED <<action_id, action_details, temp_remote_path,
                 validation_output, reloaded, cleaned>>

\* lines 87-88: best-effort removal of the temp file, result ignored
WriteCleanup(c) ==
  /\ pc[c] = "rm"
  /\ \E o \in RmOutcomes :
       /\ cmds' = [cmds EXCEPT ![c] = Append(@, "rm")]
       /\ openClients' = [openClients EXCEPT ![c] = @ + run_leak(o)]
       /\ tmpFiles' = IF o.effect THEN Without(tmpFiles, temp_remote_path[c])
                                  ELSE tmpFiles
       /\ cleaned' = [cleaned EXCEPT ![c] =
                        o.effect /\ temp_remote_path[c] \in DOMAIN tmpFiles]
  /\ AfterWrite(c, move_error(move_result[c]))
  /\ UNCHANGED tableVars
  /\ UNCHANGED <<remote, nextUuid>>
  /\ UNCHANGED <<action_id, action_details, temp_remote_path,
                 validation_output, moved, reloaded>>

\* ---- apply_pending_change, validation and reload -------------------------
\* mutant: validation judged like the other commands, by "Error"
validation_passed_noerror(v) == ~Contains(v, "Error")

\* mutant: an error report is never a pass
validation_passed_strict(v) ==
  /\ Contains(v, "syntax is ok") \/ Contains(v, "test is successful")
  /\ ~Contains(v, "Error")

validation_passed(v) ==
  ~(~Contains(v, "syntax is ok") /\ ~Contains(v, "test is successful"))

\* lines 152-155
Validate(c) ==
  /\ pc[c] = "validate"
  /\ \E o \in ValidateOutcomes :
       LET v == run_remote_command(validation_command, o)
       IN /\ cmds' = [cmds EXCEPT ![c] = Append(@, "validate")]
          /\ openClients' = [openClients EXCEPT ![c] = @ + run_leak(o)]
          /\ validation_output' = [validation_output EXCEPT ![c] = v]
          /\ IF validation_passed(v)
               THEN /\ pc' = [pc EXCEPT ![c] = "reload"]
                    /\ UNCHANGED outcome
               ELSE Finish(c, ValidateFailedText(v))
  /\ UNCHANGED tableVars
  /\ UNCHANGED <<remote, tmpFiles, nextUuid>>
  /\ UNCHANGED <<action_id, action_details, temp_remote_path, move_result,
                 result, moved, reloaded, cleaned>>

\* the reload is judged failed (line 158)
reload_failed(r) == Contains(r, "Error")

\* lines 156-160
Reload(c) ==
  /\ pc[c] = "reload"
  /\ \E o \in ReloadOutcomes :
       LET r == run_remote_command(reload_command, o)
       IN /\ cmds' = [cmds EXCEPT ![c] = Append(@, "reload")]
          /\ openClients' = [openClients EXCEPT ![c] = @ + run_leak(o)]
          /\ reloaded' = [reloaded EXCEPT ![c] = o.effect]
          /\ IF reload_failed(r)
               THEN Finish(c, ActivateFailedText(r))
               ELSE Finish(c, AppliedText(action_details[c].file_path))
  /\ UNCHANGED tableVars
  /\ UNCHANGED <<remote, tmpFiles, nextUuid>>
  /\ UNCHANGED <<action_id, action_details, temp_remote_path, move_result,
                 result, validation_output, moved, cleaned>>

\* the call has returned; the caller is free for its next call
Return(c) ==
  /\ pc[c] = "done"
  /\ pc' = [pc EXCEPT ![c] = "idle"]
  /\ action_id' = [action_id EXCEPT ![c] = NoSuchId]
  /\ action_details' = [action_details EXCEPT ![c] = NoDetails]
  /\ temp_remote_path' = [temp_remote_path EXCEPT ![c] = NoTemp]
  /\ move_result' = [move_result EXCEPT ![c] = NoText]
  /\ result' = [result EXCEPT ![c] = NoText]
  /\ validation_output' = [validation_output EXCEPT ![c] = NoText]
  /\ outcome' = [outcome EXCEPT ![c] = NoText]
  /\ cmds' = [cmds EXCEPT ![c] = <<>>]
  /\ openClients' = [openClients EXCEPT ![c] = 0]
  /\ moved' = [moved EXCEPT ![c] = FALSE]
  /\ reloaded' = [reloaded EXCEPT ![c] = FALSE]
  /\ cleaned' = [cleaned EXCEPT ![c] = FALSE]
  /\ UNCHANGED tableVars
  /\ UNCHANGED remoteVars

Next ==
  /\ \E c \in Callers :
       \/ Propose(c)
       \/ ApplyCheck(c)
       \/ ApplyPop(c)
       \/ WriteConnect(c)
       \/ WriteOpen(c)
       \/ WriteChunk(c)
       \/ WriteMove(c)
       \/ WriteCleanup(c)
       \/ Validate(c)
       \/ Reload(c)
       \/ Return(c)
  /\ UNCHANGED run

Spec == Init /\ [][Next]_vars

\* The table is a module-level dict: the state in which apply_pending_change
\* is called may hold entries stored by another writer of _pending_actions,
\* of any type. InitAnyTable draws such a table.
InitAnyTable ==
  /\ \E k \in 0..MaxProposals :
       /\ nextId = k + 1
       /\ \E types \in [1..k -> Kinds] :
            pending = [i \in 1..k |->
                         [type |-> types[i], file_path |-> "app.conf",
                          content |-> FullContent(i)]]
  /\ consumed = {}
  /\ commitRuns = [i \in Ids |-> 0]
  /\ RemoteInit
  /\ IdleLocals
  /\ run = NoRun

SpecAnyTable == InitAnyTable /\ [][Next]_vars

\* ---- _run_remote_command on its own ---------------------------------------
\* The function applied to commands, working directories and remote outcomes
\* drawn from small sets, raw stdout and stderr with their whitespace.
RunCommands == {<<"docker-compose", "ps">>, <<"sudo", "crontab -l">>}
RunDirs == {NoText, <<"/opt/iot-stack">>}
RawOuts == {NoText, <<"\n">>, <<"Up">>, <<"Up", "\n">>, <<"Error", "in the log">>}
RawErrs == {NoText, <<"\n">>, <<" ", "\n">>, <<"no crontab for user", "\n">>,
            <<"sudo", "a password is required", "\n">>,
            <<"sudo", "unable to resolve host", "\n">>}
RunOutcomes ==
  {Ran(TRUE, out, err) : out \in RawOuts, err \in RawErrs} \cup TransportFailures
RunInputs ==
  {[command |-> cmd, working_dir |-> wd, o |-> o, output |-> NoText, done |-> FALSE] :
     cmd \in RunCommands, wd \in RunDirs, o \in RunOutcomes}

callVars == <<tableVars, remoteVars, localVars>>

InitRun ==
  /\ pending = EmptyTable
  /\ nextId = 1
  /\ consumed = {}
  /\ commitRuns = [i \in Ids |-> 0]
  /\ RemoteInit
  /\ IdleLocals
  /\ run \in RunInputs

\* lines 46-60
RunRemoteCommand ==
  /\ ~run.done
  /\ run' = [run EXCEPT
               !.output = run_remote_command(in_working_dir(run.command, run.working_dir),
                                             run.o),
               !.done = TRUE]
  /\ UNCHANGED callVars

\* the next call of _run_remote_command
NextCommand ==
  /\ run.done
  /\ run' \in RunInputs
  /\ UNCHANGED callVars

NextRun == RunRemoteCommand \/ NextCommand

SpecRun == InitRun /\ [][NextRun]_vars

TypeOK ==
  /\ DOMAIN pending \subseteq Ids
  /\ nextId \in 1..(MaxProposals + 1)
  /\ \A c \in Callers : pc[c] \in {"idle", "pop", "w_connect", "w_open", "w_write",
                                   "mv", "rm", "validate", "reload", "done"}

\* ---- properties ----------------------------------------------------------
StagePcs == {"w_connect", "w_open", "w_write", "mv", "rm", "validate", "reload"}
Issued(c, cmd) == Contains(cmds[c], cmd)
Called(c) == pc[c] = "idle" /\ pc'[c] # "idle"
WriteReturned(c) == result[c] # NoText
WriteSucceeded(c) == Contains(result[c], "Successfully updated")
WriteFailedText(t) == Len(t) > 1 /\ t[1] = "Error" /\ t[2] = "writing file"

\* C1: the pop of an apply removes the entry before any stage runs (no
\* command issued, no stage position reached while the id is in the table),
\* a consumed id never comes back into the table, and every apply called
\* with an id that an earlier apply consumed returns the 'no pending change
\* found' text, whatever became of the earlier call.
C1_AtMostOnceApply ==
  [][\A c \in Callers :
       /\ (pc[c] = "pop" /\ pc'[c] \in StagePcs \cup {"done"} /\ ~IsKeyError(outcome'[c]))
            => /\ action_id[c] \notin DOMAIN pending'
               /\ cmds'[c] = <<>>
       /\ pc'[c] \in StagePcs => action_id'[c] \notin DOMAIN pending'
       /\ consumed' \cap DOMAIN pending' = {}
       /\ (Called(c) /\ action_id'[c] \in consumed)
            => pc'[c] = "done" /\ IsNotFound(outcome'[c])
    ]_vars

C1_Witness ==
  \E c \in Callers, d \in Callers :
    /\ c # d
    /\ pc[c] = "done" /\ IsNotFound(outcome[c]) /\ action_id[c] \in consumed
    /\ pc[d] = "done" /\ action_id[d] = action_id[c] /\ IsValidateFailed(outcome[d])

\* C2: under every interleaving of the membership test and the pop of
\* concurrent applies of one id, at most one call enters the commit stage
\* for that id.
C2_CommitAtMostOnce == \A i \in Ids : commitRuns[i] <= 1

\* two callers passed the membership test for the same id; one lost the pop
C2_Witness ==
  \E c \in Callers, d \in Callers :
    /\ c # d /\ action_id[c] = action_id[d]
    /\ pc[c] = "done" /\ IsKeyError(outcome[c])
    /\ pc[d] \in StagePcs
    /\ commitRuns[action_id[c]] = 1

\* C3: in a call whose commit did not place the file on the target, neither
\* the validation nor the reload command is issued and the outcome is
\* CommitFailed.
C3_CommitFailureShortCircuits ==
  \A c \in Callers :
    (WriteReturned(c) /\ ~moved[c])
      => /\ ~Issued(c, "validate")
         /\ ~Issued(c, "reload")
         /\ pc[c] = "done" /\ IsCommitFailed(outcome[c])

\* C4: in a call whose validation output contains neither success phrase,
\* the reload command is never issued and the outcome is ValidateFailed.
C4_ValidateFailureShortCircuits ==
  \A c \in Callers :
    ( /\ Issued(c, "validate")
      /\ ~Contains(validation_output[c], "syntax is ok")
      /\ ~Contains(validation_output[c], "test is successful") )
      => /\ ~Issued(c, "reload")
         /\ pc[c] = "done" /\ IsValidateFailed(outcome[c])

C4_Witness ==
  \E c \in Callers :
    /\ pc[c] = "done" /\ IsValidateFailed(outcome[c])
    /\ Issued(c, "validate") /\ moved[c]
    /\ Contains(validation_output[c], "test failed")

\* C5: _write_remote_file_content returns its success text only if the move
\* onto the path took effect; every failure of the temp write or of the move
\* gives an error return.
C5_WriteReportsEveryFailure ==
  \A c \in Callers : WriteSucceeded(c) => moved[c]

\* C6: apply_pending_change returns Applied only if the commit placed the
\* content on the target, the validation reported success and the reload
\* took effect; a failed reload gives ActivateFailed.
C6_AppliedMeansAllStagesSucceeded ==
  \A c \in Callers :
    (pc[c] = "done" /\ IsApplied(outcome[c]))
      => /\ moved[c]
         /\ ( Contains(validation_output[c], "syntax is ok")
              \/ Contains(validation_output[c], "test is successful") )
         /\ reloaded[c]

\* C7: the target always holds a complete content (the old one or the whole
\* content of a proposal), and the only step that changes it is the move of
\* a call whose temp file holds the whole proposed content.
CompleteContents == Contents \cup {OldContent}
C8_NoOrphanAfterFailedWrite ==
  \A c \in Callers :
    (pc[c] = "done" /\ WriteFailedText(result[c]) /\ temp_remote_path[c] # NoTemp)
      => /\ ~moved[c]
         /\ temp_remote_path[c] \notin DOMAIN tmpFiles

\* C9: an apply of an entry whose type is not the supported one returns the
\* 'unknown action type' text, and issues no remote write and no remote
\* command: no session, no temp file, no change of the remote files.
C9_UnknownKindRunsNoStage ==
  [][\A c \in Callers :
       ( /\ pc[c] = "pop" /\ pc'[c] # "pop"
         /\ action_id[c] \in DOMAIN pending
         /\ pending[action_id[c]].type # "nginx_config_update" )
         => /\ pc'[c] = "done" /\ IsUnsupportedKind(outcome'[c])
            /\ cmds'[c] = <<>> /\ openClients'[c] = 0 /\ result'[c] = NoText
            /\ temp_remote_path'[c] = NoTemp
            /\ remote' = remote /\ tmpFiles' = tmpFiles
    ]_vars

C9_Witness ==
  \E c \in Callers :
    /\ pc[c] = "done" /\ IsUnsupportedKind(outcome[c])
    /\ action_details[c].type = "other_kind"
    /\ action_id[c] \in consumed

\* C10: an apply with an id that is not in the table returns the 'no pending
\* change found' text with that id in it, leaves the table as it was and
\* issues no remote write and no command.
C10_UnknownIdRejected ==
  [][\A c \in Callers :
       (Called(c) /\ action_id'[c] \notin DOMAIN pending)
         => /\ pc'[c] = "done"
            /\ IsNotFound(outcome'[c])
            /\ outcome'[c][Len(outcome'[c])] = ToString(action_id'[c])
            /\ pending' = pending
            /\ cmds'[c] = <<>> /\ openClients'[c] = 0
            /\ remote' = remote /\ tmpFiles' = tmpFiles
    ]_vars

\* both cases: an id never proposed, and an id already consumed
C10_Witness ==
  \E c \in Callers, d \in Callers :
    /\ pc[c] = "done" /\ IsNotFound(outcome[c]) /\ action_id[c] = NoSuchId
    /\ pc[d] = "done" /\ IsNotFound(outcome[d]) /\ action_id[d] \in consumed
    /\ pending # EmptyTable

\* C11: when an apply ends with ValidateFailed or ActivateFailed, its commit
\* is in place (the move of the call took effect and the target does not hold
\* the old content again), the entry is not back in the table, and no stage
\* command of the call was issued twice.
NoRepeat(seq) == \A i \in DOMAIN seq, j \in DOMAIN seq : seq[i] = seq[j] => i = j
C11_NoRollbackNoRetry ==
  \A c \in Callers :
    (pc[c] = "done" /\ (IsValidateFailed(outcome[c]) \/ IsActivateFailed(outcome[c])))
      => /\ moved[c]
         /\ remote[action_details[c].file_path] # OldContent
         /\ action_id[c] \notin DOMAIN pending
         /\ NoRepeat(cmds[c])

\* C12: once the validation command has returned, the call goes on to the
\* reload exactly if the returned text contains 'syntax is ok' or 'test is
\* successful'; with any other text (empty, an error report, a transport
\* failure message) it ends with ValidateFailed.
C12_ValidationVerdict ==
  \A c \in Callers :
    Issued(c, "validate") =>
      LET ok == \/ Contains(validation_output[c], "syntax is ok")
                \/ Contains(validation_output[c], "test is successful")
      IN /\ ok <=> (pc[c] = "reload" \/ Issued(c, "reload"))
         /\ ~ok <=> (pc[c] = "done" /\ IsValidateFailed(outcome[c]))

\* a transport failure of the check command ended the call with ValidateFailed
C12_Witness ==
  \E c \in Callers :
    /\ pc[c] = "done" /\ IsValidateFailed(outcome[c])
    /\ Contains(validation_output[c], "Failed to run command")
    /\ ~Issued(c, "reload")

\* C13: the table holds exactly the ids handed out by propose and not yet
\* popped by an apply, each with the type, path and content it was proposed
\* with; an entry never changes, and it leaves the table only by the pop of
\* an apply called with its id.
TableAsProposed ==
  /\ DOMAIN pending = (1..(nextId - 1)) \ consumed
  /\ \A i \in DOMAIN pending :
       /\ pending[i].type = "nginx_config_update"
       /\ pending[i].file_path \in ConfigPaths
       /\ pending[i].content = FullContent(i)
C13_PendingTableInvariant ==
  /\ TableAsProposed
  /\ [][/\ TableAsProposed'
        /\ \A i \in DOMAIN pending :
             \/ i \in DOMAIN pending' /\ pending'[i] = pending[i]
             \/ \E c \in Callers :
                  pc[c] = "pop" /\ action_id[c] = i /\ pc'[c] # "pop"
     ]_vars

\* one id consumed, another still pending while a call is at work
C13_Witness ==
  /\ consumed = {1}
  /\ DOMAIN pending = {2}
  /\ \E c \in Callers : pc[c] \in StagePcs /\ action_id[c] = 1

\* C14: of several concurrent applies of one id, every caller that did not
\* pop the entry itself completes with the 'no pending change found' text.
C14_LosersGetNotFound ==
  \A c \in Callers :
    (pc[c] = "done" /\ action_id[c] \in consumed /\ action_details[c] = NoDetails)
      => IsNotFound(outcome[c])

\* C15: a propose issues no remote command, opens no session, touches no
\* remote file, leaves every entry of the table as it was, and adds exactly
\* one entry, under an id that no earlier propose returned.
C15_ProposeIsLocal ==
  [][nextId' # nextId =>
       /\ nextId' = nextId + 1
       /\ remote' = remote /\ tmpFiles' = tmpFiles /\ nextUuid' = nextUuid
       /\ cmds' = cmds /\ openClients' = openClients /\ pc' = pc
       /\ \A i \in DOMAIN pending : i \in DOMAIN pending' /\ pending'[i] = pending[i]
       /\ \E new \in DOMAIN pending' :
            /\ DOMAIN pending' = DOMAIN pending \cup {new}
            /\ new \notin DOMAIN pending
            /\ new \notin 1..(nextId - 1)
    ]_vars

\* a second propose was made while a call was at work on the remote
C15_Witness ==
  /\ nextId = 3
  /\ DOMAIN pending = {2}
  /\ \E c \in Callers : pc[c] = "mv" /\ action_id[c] = 1 /\ openClients[c] = 1

\* C16: whenever an apply ends with CommitFailed, the call has not changed
\* the target.
C16_CommitFailedLeavesTarget ==
  \A c \in Callers :
    (pc[c] = "done" /\ IsCommitFailed(outcome[c])) => ~moved[c]

\* C17: when _write_remote_file_content has returned, and when the apply has
\* returned, the call has no SSH client left open.
C17_SessionsClosed ==
  \A c \in Callers :
    (WriteReturned(c) \/ pc[c] = "done") => openClients[c] = 0

\* C18: a move judged failed is followed by exactly one rm of the temp path
\* of the call; the write then returns the 'moving temporary file' error,
\* not the 'writing file' error, whatever the rm did; the rm touches no other
\* file, and if it took effect the temp file of the call is gone. A move not
\* judged failed is followed by no rm.
C18_MoveFailureHandling ==
  [][\A c \in Callers :
       /\ (pc[c] = "mv" /\ pc'[c] # "mv")
            => /\ ~Contains(cmds'[c], "rm")
               /\ \/ pc'[c] = "rm" /\ Contains(move_result'[c], "Error")
                  \/ Contains(result'[c], "Successfully updated")
       /\ (pc[c] = "rm" /\ pc'[c] # "rm")
            => /\ cmds'[c] = Append(cmds[c], "rm")
               /\ ~Contains(cmds[c], "rm")
               /\ result'[c] = <<"Error", "moving temporary file">> \o move_result[c]
               /\ ~WriteFailedText(result'[c])
               /\ pc'[c] = "done" /\ IsCommitFailed(outcome'[c])
               /\ remote' = remote
               /\ tmpFiles' \in {tmpFiles, Without(tmpFiles, temp_remote_path[c])}
               /\ cleaned'[c] => temp_remote_path[c] \notin DOMAIN tmpFiles'
    ]_vars

\* the move failed, the rm removed the temp file
C18_Witness ==
  \E c \in Callers :
    /\ pc[c] = "done" /\ IsCommitFailed(outcome[c])
    /\ cmds[c] = <<"mv", "rm">> /\ cleaned[c] /\ ~moved[c]
    /\ temp_remote_path[c] \notin DOMAIN tmpFiles

\* C19 as stated: a command that ran is reported as failed exactly when the
\* stderr it produced is non-empty and does not contain 'sudo'; otherwise the
\* result is its stdout if non-empty, else its stderr.
IsErrorReport(t) == Len(t) > 1 /\ t[1] = "Error" /\ t[2] = "executing command"
C19_FailurePolicyRaw ==
  (run.done /\ run.o.kind = "ran") =>
    LET failed == run.o.err # NoText /\ ~Contains(run.o.err, "sudo")
    IN /\ IsErrorReport(run.output) <=> failed
       /\ ~failed => run.output = (IF run.o.out # NoText THEN run.o.out ELSE run.o.err)

\* C19 amended: the same of stdout and stderr with their leading and trailing
\* whitespace removed: failed exactly when the stripped stderr is non-empty
\* and does not contain 'sudo'; otherwise the result is the stripped stdout
\* if non-empty, else the stripped stderr.
C19_FailurePolicy ==
  (run.done /\ run.o.kind = "ran") =>
    LET output == Strip(run.o.out)
        error == Strip(run.o.err)
        failed == error # NoText /\ ~Contains(error, "sudo")
    IN /\ IsErrorReport(run.output) <=> failed
       /\ failed => /\ SubSeq(run.output, 3, Len(run.output))
                         = <<"STDOUT">> \o output \o <<"STDERR">> \o error
       /\ ~failed => run.output = (IF output # NoText THEN output ELSE error)

\* stderr of sudo with no stdout: the stderr text is the result, no error report
C19_Witness ==
  /\ run.done /\ run.o.kind = "ran"
  /\ Contains(run.o.err, "sudo") /\ Strip(run.o.out) = NoText
  /\ run.output = <<"sudo", "a password is required">>

\* C20: two calls that are writing or moving at the same time have different
\* temp paths; the temp file of a call holds pieces of its own content only;
\* and when the moves of two concurrent applies onto one path both took
\* effect, the target holds the whole content of one of the two.
InCommit == {"w_write", "mv", "rm"}
C20_ConcurrentCommitsApart ==
  /\ \A c \in Callers, d \in Callers :
       (c # d /\ pc[c] \in InCommit /\ pc[d] \in InCommit)
         => temp_remote_path[c] # temp_remote_path[d]
  /\ \A c \in Callers :
       pc[c] \in {"w_write", "mv"}
         => /\ temp_remote_path[c] \in DOMAIN tmpFiles
            /\ LET f == tmpFiles[temp_remote_path[c]]
               IN /\ Len(f) <= Len(action_details[c].content)
                  /\ f = SubSeq(action_details[c].content, 1, Len(f))
            /\ pc[c] = "mv" => tmpFiles[temp_remote_path[c]] = action_details[c].content
  /\ \A c \in Callers, d \in Callers :
       ( /\ c # d /\ moved[c] /\ moved[d]
         /\ action_details[c].file_path = action_details[d].file_path )
         => remote[action_details[c].file_path]
              \in {action_details[c].content, action_details[d].content}

\* two applies of different ids, both still running, both moves done
C20_Witness ==
  \E c \in Callers, d \in Callers :
    /\ c # d /\ action_id[c] # action_id[d]
    /\ pc[c] = "validate" /\ pc[d] = "validate"
    /\ moved[c] /\ moved[d]
    /\ remote[action_details[c].file_path] = action_details[d].content
====
